---- MODULE Spec2Model ----
(***************************************************************************)
(* Acceleott backend: the email-verification token lifecycle and the      *)
(* session-issuing login, in both implementations found in the            *)
(* repository: the controller (registerUser, verifyEmail,                 *)
(* resendVerification, loginUser) and the router (router.post("/register")*)
(* router.get("/verify/:token"), router.post("/login")).                  *)
(*                                                                         *)
(* The session side is modelled as well (logoutUser, getMe, the router's   *)
(* /logout and /me, authMiddleware), and the start-up of the process       *)
(* (server.js, connectDB with its retries), the demo-request intake        *)
(* (POST /api/demo) and the mail utility (sendEmail).                      *)
(*                                                                         *)
(* Every handler is split at the awaits that reach the users collection:  *)
(* a read step (findOne) and a write step (create / save).  Requests run  *)
(* in request slots; steps of different slots interleave freely, as the   *)
(* event loop interleaves handlers at their awaits.                       *)
(*                                                                         *)
(* Strings that the code transforms (emails, names) are sequences of      *)
(* one-character strings.  An absent (undefined) document field is the    *)
(* empty set, a present one the singleton of its value.                   *)
(***************************************************************************)
EXTENDS Integers, Sequences, FiniteSets, TLC

\* ---------------------------------------------------------------- bounds
MaxUsers == 2
MaxTokens == 2
MaxTicks == 2
MaxReqs == 2
MaxAttempts == 8
MaxDemos == 2

\* ------------------------------------------------------- program constants
\* 24 * 60 * 60 * 1000 ms: the token's lifetime and the cookie's max-age
TokenTTL == 24 * 60 * 60 * 1000
SessionTTL == 24 * 60 * 60 * 1000
\* expiresIn: "1d", in seconds as jsonwebtoken counts
JwtExpiresIn == 24 * 60 * 60
\* connectWithRetry(retries = 5, ...)
Retries == 5

\* ------------------------------------------------------------ input values
Missing == << >>
EmailAnn == <<"a", "@", "x", ".", "c">>
EmailAnnRaw == <<" ", "A", "@", "X", ".", "c", " ">>
EmailBob == <<"b", "@", "x", ".", "c">>
EmailInputs == {Missing, EmailAnn, EmailAnnRaw, EmailBob}
NameInputs == {Missing, <<"A", "n", " ">>}
\* registrations use one password; a login may also present another one
RegisterPasswords == {Missing, <<"secret1">>}
LoginPasswords == {Missing, <<"secret1">>, <<"secret2">>}
\* the bodies of POST /register: <<name, email, password>>, at most one missing
RegisterInputs ==
  {b \in NameInputs \X EmailInputs \X RegisterPasswords :
     Cardinality({i \in 1..3 : b[i] = Missing}) <= 1}
\* the emails of POST /login and POST /resend-verification
LookupEmails == {Missing, EmailAnnRaw, EmailBob}
Salts == {"s1"}
\* a raw token nobody was ever sent
BogusToken == 0
Reqs == 1..MaxReqs
\* the clock is read at 0, then a millisecond before the first token's expiry,
\* then at the expiry, and so on in turn
TickStep(n) == IF n % 2 = 0 THEN TokenTTL - 1 ELSE 1

\* ------------------------------------------------------- string functions
LowerChar(c) ==
  CASE c = "A" -> "a"
    [] c = "B" -> "b"
    [] c = "X" -> "x"
    [] OTHER -> c

ToLowerCase(s) == [i \in 1..Len(s) |-> LowerChar(s[i])]

IsSpace(c) == c = " "

RECURSIVE TrimLeft(_)
TrimLeft(s) ==
  IF s # << >> /\ IsSpace(Head(s)) THEN TrimLeft(Tail(s)) ELSE s

RECURSIVE TrimRight(_)
TrimRight(s) ==
  IF s # << >> /\ IsSpace(s[Len(s)]) THEN TrimRight(SubSeq(s, 1, Len(s) - 1)) ELSE s

Trim(s) == TrimRight(TrimLeft(s))

\* email.toLowerCase().trim(), and the schema's lowercase + trim setters
NormalizeEmail(s) == Trim(ToLowerCase(s))

\* /^\S+@\S+\.\S+$/
EmailMatch(s) ==
  /\ \A i \in 1..Len(s) : ~IsSpace(s[i])
  /\ \E i \in 1..Len(s), j \in 1..Len(s) :
        /\ 1 < i
        /\ s[i] = "@"
        /\ i + 1 < j
        /\ s[j] = "."
        /\ j < Len(s)

\* ------------------------------------------------------------------ crypto
\* bcrypt.hash(data, salt): the result embeds the salt; data is any string,
\* a hash included
Hash(data, salt) == <<"$2a$12$", salt>> \o data

\* bcrypt.compare(data, hash): re-hash data with the salt read from hash
Compare(data, hash) ==
  /\ Len(hash) >= 2
  /\ hash[1] = "$2a$12$"
  /\ Hash(data, hash[2]) = hash

\* crypto.createHash("sha256").update(token).digest("hex")
Digest(token) == <<"sha256", token>>

\* crypto.randomBytes(32).toString("hex"): the raw token as the string that
\* the link in the mail carries
Hex(token) == <<"hex", token>>

VARIABLES
  users,        \* the users collection, in insertion order; _id is the index
  plaintext,    \* history: plaintext[i] is the password users[i] registered with
  now,          \* Date.now()
  ticks,        \* how often the clock advanced
  nextToken,    \* the next value crypto.randomBytes(32) returns
  uniqueIndex,  \* whether the unique index on users.email was built
  req,          \* per slot: the request in flight and its handler's position
  resp,         \* the response being sent, with the request it answers
  mails,        \* the mails handed to transporter.sendMail so far
  consumed,     \* history: raw tokens a verify succeeded with
  issued,       \* history: every raw token generated, for whom and when
  env,          \* process.env: which of the variables the code reads are set
  proc,         \* the server process: where its start-up stands
  jar,          \* the browser's cookie "token"
  revoked,      \* the credential a logout cleared, which the client kept
  demoRequests, \* the demoRequests collection, in insertion order
  notice        \* the last call of sendEmail: how it settled, what it did

\* the deployment, and what the client holds
process == <<env, proc>>
client == <<jar, revoked>>
\* the form intake and the mail utility
intake == <<demoRequests, notice>>

vars == <<users, plaintext, now, ticks, nextToken, uniqueIndex,
          req, resp, mails, consumed, issued, env, proc, jar, revoked,
          demoRequests, notice>>

\* ---------------------------------------------------------------- requests
\* what a request may carry as its credential: nothing, a string that is no
\* signed token, or a token jwt.sign returned
NoCred == [kind |-> "none", id |-> 0, exp |-> 0]
Malformed == [kind |-> "malformed", id |-> 0, exp |-> 0]

IdleReq ==
  [op |-> "none", pc |-> "idle", name |-> Missing, email |-> Missing,
   password |-> Missing, token |-> BogusToken, uid |-> 0, cred |-> NoCred]

\* cookie: the Set-Cookie directives; user: the fields of the document in the body
NoResp == [to |-> IdleReq, status |-> 0, body |-> "", cookie |-> {}, user |-> {}]

\* a handler step runs to its await or to its response in one turn of the event
\* loop: no other handler runs while a response is being handed to the client
Turn == resp = NoResp

\* requests take the lowest free slot (slots are interchangeable)
Free(r) ==
  /\ Turn
  /\ proc.accepting
  /\ req[r].pc = "idle"
  /\ \A k \in 1..(r - 1) : req[k].pc # "idle"

\* the handler of slot r resumes after the await at pc
At(r, op, pc) == Turn /\ proc.accepting /\ req[r].op = op /\ req[r].pc = pc

Reply(rq, status, body) ==
  [to |-> rq, status |-> status, body |-> body, cookie |-> {}, user |-> {}]

\* the handler of slot r returns: the response is sent and the slot is free
Finish(r, rs) ==
  /\ req' = [req EXCEPT ![r] = IdleReq]
  /\ resp' = rs

\* the handler of slot r awaits its next store call
Await(r, rq, pc) ==
  /\ req' = [req EXCEPT ![r] = [rq EXCEPT !.pc = pc]]
  /\ UNCHANGED resp

\* ------------------------------------------------------------------- store
UserIds == 1..Len(users)

\* a faulty variant: the query value is compared as it was given
FindOneByEmail_Exact(email) ==
  LET hits == {i \in UserIds : users[i].email = email}
  IN IF hits = {} THEN 0 ELSE CHOOSE i \in hits : \A k \in hits : i <= k

\* User.findOne({ email }): the first document whose email is the query value
\* after the schema's setters were applied to it; 0 when there is none
FindOneByEmail(email) ==
  LET q == NormalizeEmail(email)
      hits == {i \in UserIds : users[i].email = q}
  IN IF hits = {} THEN 0 ELSE CHOOSE i \in hits : \A k \in hits : i <= k

\* a faulty variant: $gte in place of $gt
VerifyQuery_Gte(u, hashed, t) ==
  /\ hashed \in u.verifyToken
  /\ \E e \in u.verifyTokenExpires : e >= t

\* { verifyToken: hashed, verifyTokenExpires: { $gt: Date.now() } }
VerifyQuery(u, hashed, t) ==
  /\ hashed \in u.verifyToken
  /\ \E e \in u.verifyTokenExpires : e > t

FindOneByToken(hashed, t) ==
  LET hits == {i \in UserIds : VerifyQuery(users[i], hashed, t)}
  IN IF hits = {} THEN 0 ELSE CHOOSE i \in hits : \A k \in hits : i <= k

\* the document the User model builds: setters applied, defaults filled in
NewUser(name, email, password) ==
  [name |-> Trim(name), email |-> NormalizeEmail(email), password |-> password,
   emailVerified |-> FALSE, verifyToken |-> {}, verifyTokenExpires |-> {}]

\* schema validation run by save() on a new document
Validates(doc) ==
  /\ doc.name # Missing
  /\ doc.email # Missing
  /\ EmailMatch(doc.email)
  /\ doc.password # Missing

\* userSchema.pre("save"): the password is hashed when it counts as modified,
\* which it does in a new document and in no document the handlers load
PreSave(doc, isModifiedPassword, salt) ==
  IF isModifiedPassword THEN [doc EXCEPT !.password = Hash(doc.password, salt)] ELSE doc

\* user.save() of a loaded document: the hook runs, the modified paths are written
Save(doc) == PreSave(doc, FALSE, CHOOSE salt \in Salts : TRUE)

\* E11000: the insert hits the unique index on email
DuplicateKey(doc) ==
  uniqueIndex /\ \E i \in UserIds : users[i].email = doc.email

\* every variable the code reads is set; the process runs outside Vercel
Configured == [JWT_SECRET |-> TRUE, URI |-> TRUE, VERCEL |-> FALSE, ADMIN_EMAIL |-> TRUE]

\* the server listens and mongoose is connected
Running ==
  [pc |-> "running", db |-> "connected", retries |-> 0, accepting |-> TRUE,
   attempts |-> 0, resolved |-> FALSE]

\* sendEmail was not called yet
NoNotice ==
  [to |-> Missing, subject |-> Missing, settled |-> "none", logged |-> FALSE,
   transport |-> {}]

\* the state the handlers run in: the server is up, the collection is empty
Init ==
  /\ users = << >>
  /\ plaintext = << >>
  /\ now = 0
  /\ ticks = 0
  /\ nextToken = 1
  /\ uniqueIndex \in BOOLEAN
  /\ req = [r \in Reqs |-> IdleReq]
  /\ resp = NoResp
  /\ mails = {}
  /\ consumed = {}
  /\ issued = {}
  /\ env = Configured
  /\ proc = Running
  /\ jar = {}
  /\ revoked = {}
  /\ demoRequests = << >>
  /\ notice = NoNotice

\* ------------------------------------------------------------------- mails
VerifyMail(uid, to, token, ok) ==
  [kind |-> "verify", about |-> uid, to |-> to, token |-> token, ok |-> ok]

\* the notification to process.env.ADMIN_EMAIL; it carries no token
AdminMail ==
  [kind |-> "admin", about |-> 0, to |-> <<"admin">>, token |-> BogusToken, ok |-> TRUE]

\* the raw tokens that reached a mailbox
DeliveredTokens == {m.token : m \in {x \in mails : x.kind = "verify" /\ x.ok}}

TokenInputs == DeliveredTokens \cup {BogusToken}

\* ---------------------------------------------------------------- register
\* a faulty variant: the name is not required
registerUser_find_NameOptional(r, name, email, password) ==
  /\ Free(r)
  /\ LET rq == [IdleReq EXCEPT !.op = "registerUser", !.name = name,
                               !.email = email, !.password = password]
     IN IF email = Missing \/ password = Missing
        THEN Finish(r, Reply(rq, 400, "Name, email, and password are required."))
        ELSE IF FindOneByEmail(NormalizeEmail(email)) # 0
        THEN Finish(r, Reply(rq, 400, "User already exists."))
        ELSE Await(r, rq, "create")
  /\ UNCHANGED <<users, plaintext, now, ticks, intake, nextToken, uniqueIndex, process, client,
                 mails, consumed, issued>>

\* registerUser, lines 58-64: validation and the existence check
registerUser_find(r, name, email, password) ==
  /\ Free(r)
  /\ LET rq == [IdleReq EXCEPT !.op = "registerUser", !.name = name,
                               !.email = email, !.password = password]
     IN IF name = Missing \/ email = Missing \/ password = Missing
        THEN Finish(r, Reply(rq, 400, "Name, email, and password are required."))
        ELSE IF FindOneByEmail(NormalizeEmail(email)) # 0
        THEN Finish(r, Reply(rq, 400, "User already exists."))
        ELSE Await(r, rq, "create")
  /\ UNCHANGED <<users, plaintext, now, ticks, intake, nextToken, uniqueIndex, process, client,
                 mails, consumed, issued>>

\* registerUser, lines 66-77 and the catch of 117-122: hash, User.create
registerUser_create(r) ==
  /\ At(r, "registerUser", "create")
  /\ Len(users) < MaxUsers
  /\ \E salt \in Salts, hookSalt \in Salts :
       LET hashed == Hash(req[r].password, salt)
           doc == NewUser(req[r].name, NormalizeEmail(req[r].email), hashed)
       IN IF ~Validates(doc)
          THEN /\ Finish(r, Reply(req[r], 500, "Server error during registration."))
               /\ UNCHANGED <<users, plaintext>>
          ELSE IF DuplicateKey(doc)
          THEN /\ Finish(r, Reply(req[r], 400, "Email already registered."))
               /\ UNCHANGED <<users, plaintext>>
          ELSE /\ users' = Append(users, PreSave(doc, TRUE, hookSalt))
               /\ plaintext' = Append(plaintext, req[r].password)
               /\ Await(r, [req[r] EXCEPT !.uid = Len(users) + 1], "saveToken")
  /\ UNCHANGED <<now, ticks, intake, nextToken, uniqueIndex, process, client, mails,
                 consumed, issued>>

\* a faulty variant: the save writes the whole document as it was loaded,
\* emailVerified (false when it was loaded) included
SetToken_WholeDocument(u, token, t) ==
  [u EXCEPT !.verifyToken = {Digest(token)}, !.verifyTokenExpires = {t + TokenTTL},
            !.emailVerified = FALSE]

\* a faulty variant: the raw token is stored, not its digest
SetToken_Raw(u, token, t) ==
  [u EXCEPT !.verifyToken = {Hex(token)}, !.verifyTokenExpires = {t + TokenTTL}]

\* a faulty variant: the new digest is kept beside the old one
SetToken_Appends(u, token, t) ==
  [u EXCEPT !.verifyToken = @ \cup {Digest(token)},
            !.verifyTokenExpires = {t + TokenTTL}]

\* lines 82-83 / 130-131 / 169-170: the digest and its expiry
SetToken(u, token, t) ==
  [u EXCEPT !.verifyToken = {Digest(token)}, !.verifyTokenExpires = {t + TokenTTL}]

\* crypto.randomBytes(32) returned token for user uid at time t
Issue(token, uid, t) == [token |-> token, uid |-> uid, at |-> t]

\* registerUser, lines 79-116: the token, its save, the mails, the response.
\* The mails are not awaited: their outcome is only logged.  The admin is
\* notified when process.env.ADMIN_EMAIL is set.
registerUser_save(r) ==
  /\ At(r, "registerUser", "saveToken")
  /\ nextToken <= MaxTokens
  /\ LET uid == req[r].uid
     IN /\ users' = [users EXCEPT ![uid] = Save(SetToken(@, nextToken, now))]
        /\ issued' = issued \cup {Issue(nextToken, uid, now)}
        /\ \E ok \in BOOLEAN :
             mails' = mails \cup {VerifyMail(uid, users[uid].email, nextToken, ok)}
                            \cup (IF env.ADMIN_EMAIL THEN {AdminMail} ELSE {})
  /\ nextToken' = nextToken + 1
  /\ Finish(r, Reply(req[r], 201, "User registered. Please check your email to verify your account."))
  /\ UNCHANGED <<plaintext, now, ticks, intake, uniqueIndex, process, client, consumed>>

\* router.post("/register"), lines 114-121: validation and the existence check
RouterRegister_find(r, name, email, password) ==
  /\ Free(r)
  /\ LET rq == [IdleReq EXCEPT !.op = "RouterRegister", !.name = name,
                               !.email = email, !.password = password]
     IN IF name = Missing \/ email = Missing \/ password = Missing
        THEN Finish(r, Reply(rq, 400, "All fields are required."))
        ELSE IF FindOneByEmail(email) # 0
        THEN Finish(r, Reply(rq, 400, "User already exists."))
        ELSE Await(r, rq, "save")
  /\ UNCHANGED <<users, plaintext, now, ticks, intake, nextToken, uniqueIndex, process, client,
                 mails, consumed, issued>>

\* router.post("/register"), lines 123-169: hash, new User with its token,
\* save, the awaited mails, the response; any throw ends in the catch's 500
RouterRegister_save(r) ==
  /\ At(r, "RouterRegister", "save")
  /\ Len(users) < MaxUsers
  /\ nextToken <= MaxTokens
  /\ \E salt \in Salts, hookSalt \in Salts :
       LET hashed == Hash(req[r].password, salt)
           doc == SetToken(NewUser(req[r].name, req[r].email, hashed), nextToken, now)
           uid == Len(users) + 1
           failed == Reply(req[r], 500, "Server error during registration.")
       IN IF ~Validates(doc) \/ DuplicateKey(doc)
          THEN /\ Finish(r, failed)
               /\ UNCHANGED <<users, plaintext, nextToken, mails, issued>>
          ELSE /\ users' = Append(users, PreSave(doc, TRUE, hookSalt))
               /\ plaintext' = Append(plaintext, req[r].password)
               /\ nextToken' = nextToken + 1
               /\ issued' = issued \cup {Issue(nextToken, uid, now)}
               /\ \E ok \in BOOLEAN, adminOk \in BOOLEAN :
                    LET verifyMail == VerifyMail(uid, req[r].email, nextToken, ok)
                    IN IF ~ok
                       THEN /\ mails' = mails \cup {verifyMail}
                            /\ Finish(r, failed)
                       ELSE IF env.ADMIN_EMAIL /\ ~adminOk
                       THEN /\ mails' = mails \cup {verifyMail, AdminMail}
                            /\ Finish(r, failed)
                       ELSE /\ mails' = mails \cup {verifyMail}
                                 \cup (IF env.ADMIN_EMAIL THEN {AdminMail} ELSE {})
                            /\ Finish(r, Reply(req[r], 201,
                                 "User registered successfully. Please check your email to verify your account."))
  /\ UNCHANGED <<now, ticks, intake, uniqueIndex, process, client, consumed>>

\* ------------------------------------------------------------------ verify
\* a faulty variant: verifyTokenExpires is not cleared
MarkVerified_KeepsExpires(u) == [u EXCEPT !.emailVerified = TRUE, !.verifyToken = {}]

\* a faulty variant: the token fields are left in place
MarkVerified_KeepsToken(u) == [u EXCEPT !.emailVerified = TRUE]

\* lines 142-144 / 187-189, as user.save() writes them: $set emailVerified,
\* $unset verifyToken and verifyTokenExpires
MarkVerified(u) ==
  [u EXCEPT !.emailVerified = TRUE, !.verifyToken = {}, !.verifyTokenExpires = {}]

\* the read step of both verify handlers: digest the token, findOne
VerifyFind(r, op, token, notFound) ==
  /\ Free(r)
  /\ LET rq == [IdleReq EXCEPT !.op = op, !.token = token]
         uid == FindOneByToken(Digest(token), now)
     IN IF uid = 0
        THEN Finish(r, [notFound EXCEPT !.to = rq])
        ELSE Await(r, [rq EXCEPT !.uid = uid], "save")
  /\ UNCHANGED <<users, plaintext, now, ticks, intake, nextToken, uniqueIndex, process, client,
                 mails, consumed, issued>>

\* the write step of both verify handlers: user.save(), then the redirect
VerifySave(r, op, found) ==
  /\ At(r, op, "save")
  /\ users' = [users EXCEPT ![req[r].uid] = Save(MarkVerified(@))]
  /\ consumed' = consumed \cup {req[r].token}
  /\ Finish(r, [found EXCEPT !.to = req[r]])
  /\ UNCHANGED <<plaintext, now, ticks, intake, nextToken, uniqueIndex, process, client,
                 mails, issued>>

\* verifyEmail, lines 130-140
verifyEmail_find(r, token) ==
  VerifyFind(r, "verifyEmail", token,
             Reply(IdleReq, 400, "Invalid or expired verification link."))

\* verifyEmail, lines 142-148
verifyEmail_save(r) ==
  VerifySave(r, "verifyEmail", Reply(IdleReq, 302, "/verify-success"))

\* router.get("/verify/:token"), lines 177-185
RouterVerify_find(r, token) ==
  VerifyFind(r, "RouterVerify", token, Reply(IdleReq, 302, "/verify-failed"))

\* router.get("/verify/:token"), lines 187-192
RouterVerify_save(r) ==
  VerifySave(r, "RouterVerify", Reply(IdleReq, 302, "/verify-success"))

\* ------------------------------------------------------------------ resend
\* a faulty variant: the emailVerified check of line 165 is missing
resendVerification_find_Unchecked(r, email) ==
  /\ Free(r)
  /\ LET rq == [IdleReq EXCEPT !.op = "resendVerification", !.email = email]
         uid == FindOneByEmail(NormalizeEmail(email))
     IN IF email = Missing
        THEN Finish(r, Reply(rq, 400, "Email is required."))
        ELSE IF uid = 0
        THEN Finish(r, Reply(rq, 404, "User not found."))
        ELSE Await(r, [rq EXCEPT !.uid = uid], "save")
  /\ UNCHANGED <<users, plaintext, now, ticks, intake, nextToken, uniqueIndex, process, client,
                 mails, consumed, issued>>

\* resendVerification, lines 160-166
resendVerification_find(r, email) ==
  /\ Free(r)
  /\ LET rq == [IdleReq EXCEPT !.op = "resendVerification", !.email = email]
         uid == FindOneByEmail(NormalizeEmail(email))
     IN IF email = Missing
        THEN Finish(r, Reply(rq, 400, "Email is required."))
        ELSE IF uid = 0
        THEN Finish(r, Reply(rq, 404, "User not found."))
        ELSE IF users[uid].emailVerified
        THEN Finish(r, Reply(rq, 200, "Email already verified."))
        ELSE Await(r, [rq EXCEPT !.uid = uid], "save")
  /\ UNCHANGED <<users, plaintext, now, ticks, intake, nextToken, uniqueIndex, process, client,
                 mails, consumed, issued>>

\* resendVerification, lines 168-187: the new token, its save, the awaited mail
resendVerification_save(r) ==
  /\ At(r, "resendVerification", "save")
  /\ nextToken <= MaxTokens
  /\ LET uid == req[r].uid
     IN /\ users' = [users EXCEPT ![uid] = Save(SetToken(@, nextToken, now))]
        /\ issued' = issued \cup {Issue(nextToken, uid, now)}
        /\ \E ok \in BOOLEAN :
             /\ mails' = mails \cup {VerifyMail(uid, users[uid].email, nextToken, ok)}
             /\ IF ok
                THEN Finish(r, Reply(req[r], 200, "Verification email resent successfully."))
                ELSE Finish(r, Reply(req[r], 500, "Server error during resend."))
  /\ nextToken' = nextToken + 1
  /\ UNCHANGED <<plaintext, now, ticks, intake, uniqueIndex, process, client, consumed>>

\* ------------------------------------------------------------------- login
\* what a query hands the handler of the password field, which the schema
\* declares with select: false
SelectPassword(u, plusPassword) == IF plusPassword THEN {u.password} ELSE {}

\* jwt.sign({ id }, secret, { expiresIn: "1d" }): iat and exp are whole seconds
JwtSign(uid, t) == [kind |-> "signed", id |-> uid, exp |-> (t \div 1000) + JwtExpiresIn]

\* res.cookie("token", token, { ..., maxAge: 24 * 60 * 60 * 1000 })
SessionCookie(uid, t) == {[value |-> JwtSign(uid, t), maxAge |-> SessionTTL]}

\* res.clearCookie("token", ...)
ClearCookie == {[value |-> NoCred, maxAge |-> 0]}

\* a faulty variant: the password is compared before emailVerified is checked
Login_PasswordFirst(rq, uid, plusPassword, notVerified, failed) ==
  IF uid = 0
  THEN Reply(rq, 400, "Invalid credentials.")
  ELSE LET stored == SelectPassword(users[uid], plusPassword)
       IN IF stored = {}
          THEN Reply(rq, 500, failed)
          ELSE IF \A h \in stored : ~Compare(rq.password, h)
          THEN Reply(rq, 400, "Invalid credentials.")
          ELSE IF ~users[uid].emailVerified
          THEN Reply(rq, 403, notVerified)
          ELSE IF ~env.JWT_SECRET
          THEN Reply(rq, 500, failed)
          ELSE [Reply(rq, 200, "Login successful.") EXCEPT
                  !.cookie = SessionCookie(uid, now)]

\* a faulty variant: emailVerified is not checked
Login_SkipsVerified(rq, uid, plusPassword, notVerified, failed) ==
  IF uid = 0
  THEN Reply(rq, 400, "Invalid credentials.")
  ELSE LET stored == SelectPassword(users[uid], plusPassword)
       IN IF stored = {}
          THEN Reply(rq, 500, failed)
          ELSE IF \A h \in stored : ~Compare(rq.password, h)
          THEN Reply(rq, 400, "Invalid credentials.")
          ELSE IF ~env.JWT_SECRET
          THEN Reply(rq, 500, failed)
          ELSE [Reply(rq, 200, "Login successful.") EXCEPT
                  !.cookie = SessionCookie(uid, now)]

\* lines 199-220 / 206-232: findOne, the verified check, bcrypt.compare, the
\* cookie.  bcrypt.compare throws when the hash is undefined, jwt.sign when the
\* secret is.
Login(rq, uid, plusPassword, notVerified, failed) ==
  IF uid = 0
  THEN Reply(rq, 400, "Invalid credentials.")
  ELSE IF ~users[uid].emailVerified
  THEN Reply(rq, 403, notVerified)
  ELSE LET stored == SelectPassword(users[uid], plusPassword)
       IN IF stored = {}
          THEN Reply(rq, 500, failed)
          ELSE IF \A h \in stored : ~Compare(rq.password, h)
          THEN Reply(rq, 400, "Invalid credentials.")
          ELSE IF ~env.JWT_SECRET
          THEN Reply(rq, 500, failed)
          ELSE [Reply(rq, 200, "Login successful.") EXCEPT
                  !.cookie = SessionCookie(uid, now)]

\* the browser stores what Set-Cookie carries; the client keeps a copy of the
\* credential that a logout clears, until it logs in again
Receive(rs) ==
  LET signed == {c.value : c \in {x \in rs.cookie : x.value.kind = "signed"}}
  IN /\ jar' = IF rs.cookie = {} THEN jar ELSE signed
     /\ revoked' = IF rs.cookie = ClearCookie /\ jar # {} THEN jar
                   ELSE IF signed # {} THEN {}
                   ELSE revoked

\* loginUser, lines 193-225
loginUser(r, email, password) ==
  /\ Free(r)
  /\ LET rq == [IdleReq EXCEPT !.op = "loginUser", !.email = email,
                               !.password = password]
     IN IF email = Missing \/ password = Missing
        THEN Finish(r, Reply(rq, 400, "Email and password required."))
        ELSE Finish(r, Login(rq, FindOneByEmail(NormalizeEmail(email)), FALSE,
                             "Please verify your email to continue.",
                             "Server error during login."))
  /\ Receive(resp')
  /\ UNCHANGED <<users, plaintext, now, ticks, intake, nextToken, uniqueIndex, process,
                 mails, consumed, issued>>

\* router.post("/login"), lines 202-237
RouterLogin(r, email, password) ==
  /\ Free(r)
  /\ LET rq == [IdleReq EXCEPT !.op = "RouterLogin", !.email = email,
                               !.password = password]
     IN Finish(r, Login(rq, FindOneByEmail(email), TRUE,
                        "Please verify your email first.",
                        "Server error during login."))
  /\ Receive(resp')
  /\ UNCHANGED <<users, plaintext, now, ticks, intake, nextToken, uniqueIndex, process,
                 mails, consumed, issued>>

\* ----------------------------------------------------------------- session
\* the paths of userSchema that the model keeps
SchemaPaths ==
  {"_id", "name", "email", "password", "emailVerified", "verifyToken",
   "verifyTokenExpires"}

\* the paths declared with select: false
SelectFalse == {"password", "verifyToken", "verifyTokenExpires"}

\* a faulty variant: only the query's own exclusions are applied
Projection_QueryOnly(minus) == SchemaPaths \ minus

\* .select("-a -b"): the query's exclusions, and the schema's select: false
\* paths, which an exclusive projection leaves excluded
Projection(minus) == SchemaPaths \ (minus \cup SelectFalse)

\* the paths that have a value in the stored document
Stored(u) ==
  SchemaPaths \ ((IF u.verifyToken = {} THEN {"verifyToken"} ELSE {})
                   \cup (IF u.verifyTokenExpires = {} THEN {"verifyTokenExpires"} ELSE {}))

\* a faulty variant: the expiry is never looked at
JwtVerify_NoExpiry(cred, t) ==
  IF cred.kind # "signed" \/ ~env.JWT_SECRET THEN "JsonWebTokenError" ELSE "ok"

\* jwt.verify(token, process.env.JWT_SECRET): the error's name, or "ok".  The
\* secret and the signature are checked before the expiry; the clock is read
\* in whole seconds and the token is expired from exp on.
JwtVerify(cred, t) ==
  IF cred.kind # "signed" \/ ~env.JWT_SECRET THEN "JsonWebTokenError"
  ELSE IF (t \div 1000) >= cred.exp THEN "TokenExpiredError"
  ELSE "ok"

\* lines 244-257 / 256-268: the cookie, jwt.verify, findById with its
\* projection; caught is the catch block's response.  A query issued while
\* mongoose is not connected is buffered and then rejected.
Me(rq, minus, caught) ==
  IF rq.cred = NoCred
  THEN Reply(rq, 401, "Not authorized.")
  ELSE IF JwtVerify(rq.cred, now) # "ok" \/ proc.db # "connected"
  THEN [caught EXCEPT !.to = rq]
  ELSE IF rq.cred.id \notin UserIds
  THEN Reply(rq, 404, "User not found.")
  ELSE [Reply(rq, 200, "user") EXCEPT
          !.user = Projection(minus) \cap Stored(users[rq.cred.id])]

\* the credentials a client can present: none, a made-up one, the cookie in
\* its jar, the one it kept from before its logout
CredInputs == {NoCred, Malformed} \cup jar \cup revoked

\* getMe, lines 242-258
getMe(r, cred) ==
  /\ Free(r)
  /\ Finish(r, Me([IdleReq EXCEPT !.op = "getMe", !.cred = cred],
                  {"password", "verifyToken", "verifyTokenExpires"},
                  Reply(IdleReq, 500, "Server error.")))
  /\ UNCHANGED <<users, plaintext, now, ticks, intake, nextToken, uniqueIndex, process,
                 client, mails, consumed, issued>>

\* router.get("/me"), lines 254-269
RouterMe(r, cred) ==
  /\ Free(r)
  /\ Finish(r, Me([IdleReq EXCEPT !.op = "RouterMe", !.cred = cred],
                  {"password"},
                  Reply(IdleReq, 401, "Invalid or expired token.")))
  /\ UNCHANGED <<users, plaintext, now, ticks, intake, nextToken, uniqueIndex, process,
                 client, mails, consumed, issued>>

\* a faulty variant: an expired token is let through
authMiddleware_IgnoresExpiry(r, cred) ==
  /\ Free(r)
  /\ LET rq == [IdleReq EXCEPT !.op = "authMiddleware", !.cred = cred]
         decoded == JwtVerify(cred, now)
     IN IF cred = NoCred
        THEN Finish(r, Reply(rq, 401, "Access denied. No token provided."))
        ELSE IF decoded = "JsonWebTokenError"
        THEN Finish(r, Reply(rq, 401, "Invalid token signature."))
        ELSE Finish(r, Reply([rq EXCEPT !.uid = cred.id], 0, "next()"))
  /\ UNCHANGED <<users, plaintext, now, ticks, intake, nextToken, uniqueIndex, process,
                 client, mails, consumed, issued>>

\* authMiddleware, lines 9-60; cred is NoCred when the Authorization header is
\* absent or not a Bearer one.  Every branch returns: either a response is
\* sent, or req.user is set to the decoded payload (the request's uid is the
\* payload's id) and next() is called, which sets no status: the request
\* goes on to the route.
authMiddleware(r, cred) ==
  /\ Free(r)
  /\ LET rq == [IdleReq EXCEPT !.op = "authMiddleware", !.cred = cred]
         decoded == JwtVerify(cred, now)
     IN IF cred = NoCred
        THEN Finish(r, Reply(rq, 401, "Access denied. No token provided."))
        ELSE IF decoded = "TokenExpiredError"
        THEN Finish(r, Reply(rq, 401, "Session expired. Please log in again."))
        ELSE IF decoded = "JsonWebTokenError"
        THEN Finish(r, Reply(rq, 401, "Invalid token signature."))
        ELSE Finish(r, Reply([rq EXCEPT !.uid = cred.id], 0, "next()"))
  /\ UNCHANGED <<users, plaintext, now, ticks, intake, nextToken, uniqueIndex, process,
                 client, mails, consumed, issued>>

\* logoutUser, lines 230-237, and router.post("/logout"), lines 242-249
Logout(r, op) ==
  /\ Free(r)
  /\ Finish(r, [Reply([IdleReq EXCEPT !.op = op], 200, "Logged out successfully.")
                 EXCEPT !.cookie = ClearCookie])
  /\ Receive(resp')
  /\ UNCHANGED <<users, plaintext, now, ticks, intake, nextToken, uniqueIndex, process,
                 mails, consumed, issued>>

logoutUser(r) == Logout(r, "logoutUser")

RouterLogout(r) == Logout(r, "RouterLogout")

\* ------------------------------------------------------------------- clock
\* res.json / res.send / res.redirect returns: the response is with the client
ResponseSent ==
  /\ resp # NoResp
  /\ resp' = NoResp
  /\ UNCHANGED <<users, plaintext, now, ticks, intake, nextToken, uniqueIndex,
                 process, client, req, mails, consumed, issued>>

Tick ==
  /\ Turn
  /\ ticks < MaxTicks
  /\ now' = now + TickStep(ticks)
  /\ ticks' = ticks + 1
  /\ UNCHANGED <<users, plaintext, nextToken, uniqueIndex, process, client, req,
                 resp, mails, consumed, issued, intake>>

\* the handlers, run in the request slots rs
Handlers(rs) ==
  \/ \E r \in rs, b \in RegisterInputs : registerUser_find(r, b[1], b[2], b[3])
  \/ \E r \in rs : registerUser_create(r)
  \/ \E r \in rs : registerUser_save(r)
  \/ \E r \in rs, b \in RegisterInputs : RouterRegister_find(r, b[1], b[2], b[3])
  \/ \E r \in rs : RouterRegister_save(r)
  \/ \E r \in rs, token \in TokenInputs : verifyEmail_find(r, token)
  \/ \E r \in rs : verifyEmail_save(r)
  \/ \E r \in rs, token \in TokenInputs : RouterVerify_find(r, token)
  \/ \E r \in rs : RouterVerify_save(r)
  \/ \E r \in rs, email \in LookupEmails : resendVerification_find(r, email)
  \/ \E r \in rs : resendVerification_save(r)
  \/ \E r \in rs, email \in LookupEmails, password \in LoginPasswords :
       loginUser(r, email, password)
  \/ \E r \in rs, email \in LookupEmails, password \in LoginPasswords :
       RouterLogin(r, email, password)
  \/ \E r \in rs : logoutUser(r)
  \/ \E r \in rs : RouterLogout(r)
  \/ ResponseSent

\* concurrent requests; the clock stands still
Next == Handlers(Reqs)

Spec == Init /\ [][Next]_vars

\* one request at a time, while the clock advances.  Every insert then follows
\* its handler's own existence check, so the unique index decides nothing: the
\* deployment is the one connectDB leaves, without it.
InitClock == Init /\ ~uniqueIndex

NextClock == Handlers({1}) \/ Tick

SpecClock == InitClock /\ [][NextClock]_vars

\* as SpecClock, with a resendVerification running in slot 2 beside the
\* request in slot 1: the save of a resend can land after any step of another
\* handler
NextRace ==
  \/ NextClock
  \/ \E email \in LookupEmails : resendVerification_find(2, email)
  \/ resendVerification_save(2)

SpecRace == InitClock /\ [][NextRace]_vars

\* the first hash of a registered password: the one string bcrypt.compare
\* accepts for a document whose password the pre-save hook hashed again
HashedPasswords == {Hash(p, salt) : p \in RegisterPasswords \ {Missing}, salt \in Salts}

\* what the logins of a session present: the string bcrypt.compare accepts,
\* and the registered password itself, which it does not
SessionPasswords == HashedPasswords \cup (RegisterPasswords \ {Missing})

\* the handlers that read a session credential
SessionHandlers(rs) ==
  \/ \E r \in rs, cred \in CredInputs : getMe(r, cred)
  \/ \E r \in rs, cred \in CredInputs : RouterMe(r, cred)
  \/ \E r \in rs, cred \in CredInputs : authMiddleware(r, cred)

\* the bodies of POST /register that have all three fields
CompleteInputs == {b \in RegisterInputs : \A k \in 1..3 : b[k] # Missing}

\* sessions, from the router's registration on, while the clock advances:
\* register, verify, the logins that bcrypt.compare lets through, logout, and
\* the requests that present a credential, one at a time in slot 1; a
\* resendVerification runs beside them in slot 2, so that its save can land on
\* a user who has been verified in between
NextSession ==
  \/ \E b \in CompleteInputs : RouterRegister_find(1, b[1], b[2], b[3])
  \/ RouterRegister_save(1)
  \/ \E token \in TokenInputs : RouterVerify_find(1, token)
  \/ RouterVerify_save(1)
  \/ \E email \in LookupEmails : resendVerification_find(2, email)
  \/ resendVerification_save(2)
  \/ \E email \in LookupEmails, password \in SessionPasswords :
       RouterLogin(1, email, password)
  \/ \E email \in LookupEmails, password \in SessionPasswords :
       loginUser(1, email, password)
  \/ SessionHandlers({1})
  \/ logoutUser(1)
  \/ RouterLogout(1)
  \/ ResponseSent
  \/ Tick

SpecSession == InitClock /\ [][NextSession]_vars

\* ----------------------------------------------------------------- start-up
\* process.exit(1)
Exited ==
  [pc |-> "exited", db |-> "none", retries |-> 0, accepting |-> FALSE,
   attempts |-> 0, resolved |-> FALSE]

\* node starts one of the two entry points with some environment; nothing is
\* connected, nothing listens, no index is built
InitStartup ==
  /\ users = << >>
  /\ plaintext = << >>
  /\ now = 0
  /\ ticks = 0
  /\ nextToken = 1
  /\ uniqueIndex = FALSE
  /\ req = [r \in Reqs |-> IdleReq]
  /\ resp = NoResp
  /\ mails = {}
  /\ consumed = {}
  /\ issued = {}
  /\ env \in [JWT_SECRET : BOOLEAN, URI : BOOLEAN, VERCEL : BOOLEAN,
              ADMIN_EMAIL : BOOLEAN]
  /\ \E entry \in {"server.js", "connectDB"} :
       proc = [pc |-> entry, db |-> "none", retries |-> 0, accepting |-> FALSE,
               attempts |-> 0, resolved |-> FALSE]
  /\ jar = {}
  /\ revoked = {}
  /\ demoRequests = << >>
  /\ notice = NoNotice

\* server.js, lines 109-122: the connection string is read, mongoose.connect
\* is started; the module body goes on without awaiting it
server_connect ==
  /\ proc.pc = "server.js"
  /\ proc' = IF ~env.URI
             THEN IF ~env.VERCEL THEN Exited ELSE [proc EXCEPT !.pc = "setup"]
             ELSE [proc EXCEPT !.pc = "setup", !.db = "connecting"]
  /\ UNCHANGED <<users, plaintext, now, ticks, intake, nextToken, uniqueIndex, env,
                 client, req, resp, mails, consumed, issued>>

\* server.js, lines 128-224: the app is set up, then app.listen, or on Vercel
\* the export that the platform serves requests with
server_listen ==
  /\ proc.pc = "setup"
  /\ proc' = [proc EXCEPT !.pc = "running", !.accepting = TRUE]
  /\ UNCHANGED <<users, plaintext, now, ticks, intake, nextToken, uniqueIndex, env,
                 client, req, resp, mails, consumed, issued>>

\* server.js, line 117: the connection is up; mongoose builds the indexes
server_connected ==
  /\ proc.pc = "running"
  /\ proc.db = "connecting"
  /\ proc' = [proc EXCEPT !.db = "connected"]
  /\ uniqueIndex' = TRUE
  /\ UNCHANGED <<users, plaintext, now, ticks, intake, nextToken, env,
                 client, req, resp, mails, consumed, issued>>

\* server.js, lines 118-121: the connection failed
server_connectFailed ==
  /\ proc.pc = "running"
  /\ proc.db = "connecting"
  /\ proc' = IF ~env.VERCEL THEN Exited ELSE [proc EXCEPT !.db = "failed"]
  /\ UNCHANGED <<users, plaintext, now, ticks, intake, nextToken, uniqueIndex, env,
                 client, req, resp, mails, consumed, issued>>

\* connectDB, lines 4-16 and 36: the connection string, autoIndex off, the
\* first connectWithRetry, whose mongoose.connect is now in flight
connectDB ==
  /\ proc.pc = "connectDB"
  /\ proc' = IF ~env.URI
             THEN Exited
             ELSE [proc EXCEPT !.pc = "connectWithRetry", !.db = "connecting",
                               !.retries = Retries, !.attempts = 1]
  /\ UNCHANGED <<users, plaintext, now, ticks, intake, nextToken, uniqueIndex, env,
                 client, req, resp, mails, consumed, issued>>

\* connectWithRetry, lines 16-22: mongoose.connect resolved.  The call
\* returns; the first call is the one connectDB awaits (line 36).
connectWithRetry_connected ==
  /\ proc.pc = "connectWithRetry"
  /\ proc' = [proc EXCEPT !.pc = "connected", !.db = "connected",
                          !.resolved = TRUE]
  /\ UNCHANGED <<users, plaintext, now, ticks, intake, nextToken, uniqueIndex, env,
                 client, req, resp, mails, consumed, issued>>

\* connectWithRetry, lines 23-33: mongoose.connect rejected.  With retries
\* left the next call is handed to setTimeout and this call returns, so the
\* await of line 36 is over after the first failure; with none left the
\* process exits.
connectWithRetry_failed ==
  /\ proc.pc = "connectWithRetry"
  /\ proc' = IF proc.retries > 0
             THEN [proc EXCEPT !.pc = "setTimeout", !.db = "disconnected",
                               !.resolved = TRUE]
             ELSE [Exited EXCEPT !.attempts = proc.attempts,
                                 !.resolved = proc.resolved]
  /\ UNCHANGED <<users, plaintext, now, ticks, intake, nextToken, uniqueIndex, env,
                 client, req, resp, mails, consumed, issued>>

\* a faulty variant: the retry is called with the retries it was given
connectWithRetry_retry_SameRetries ==
  /\ proc.pc = "setTimeout"
  /\ proc.attempts < MaxAttempts
  /\ proc' = [proc EXCEPT !.pc = "connectWithRetry", !.db = "connecting",
                          !.attempts = @ + 1]
  /\ UNCHANGED <<users, plaintext, now, ticks, intake, nextToken, uniqueIndex, env,
                 client, req, resp, mails, consumed, issued>>

\* line 28: the delay is over, connectWithRetry(retries - 1, delay) runs and
\* its mongoose.connect is in flight
connectWithRetry_retry ==
  /\ proc.pc = "setTimeout"
  /\ proc.attempts < MaxAttempts
  /\ proc' = [proc EXCEPT !.pc = "connectWithRetry", !.db = "connecting",
                          !.retries = @ - 1, !.attempts = @ + 1]
  /\ UNCHANGED <<users, plaintext, now, ticks, intake, nextToken, uniqueIndex, env,
                 client, req, resp, mails, consumed, issued>>

\* the two entry points start, and the handlers that answer without the
\* store serve what requests the server accepts
NextStartup ==
  \/ server_connect
  \/ server_listen
  \/ server_connected
  \/ server_connectFailed
  \/ connectDB
  \/ connectWithRetry_connected
  \/ connectWithRetry_failed
  \/ connectWithRetry_retry
  \/ SessionHandlers({1})
  \/ logoutUser(1)
  \/ RouterLogout(1)
  \/ ResponseSent

SpecStartup == InitStartup /\ [][NextStartup]_vars

\* as SpecStartup, with what the event loop guarantees of connectDB: the
\* function runs once it is called, mongoose.connect settles one way or the
\* other (serverSelectionTimeoutMS bounds the wait), and a timer that was
\* set fires
SpecStartupFair ==
  /\ SpecStartup
  /\ WF_vars(connectDB)
  /\ WF_vars(connectWithRetry_connected \/ connectWithRetry_failed)
  /\ WF_vars(connectWithRetry_retry)

\* ------------------------------------------------------------------ intake
\* what the form of POST /api/demo may carry
DemoContact == <<"9", "8", "7", "6", "5", "4", "3", "2", "1", "0">>
DemoNames == {Missing, <<" ">>, <<"A">>, <<"A", "n", " ">>}
DemoEmails == {Missing, <<"a">>, EmailAnnRaw}
DemoContacts == {Missing, <<" ">>, <<"1", "2">>, DemoContact}
DemoDesignations == {Missing, <<"C", "T", "O">>}
DemoInputs == DemoNames \X DemoEmails \X DemoContacts \X DemoDesignations

IsDigit(c) == c \in {"0", "1", "2", "3", "4", "5", "6", "7", "8", "9"}

\* the document the DemoRequest model builds: setters applied, the default
\* of designation filled in, createdAt from timestamps
NewDemoRequest(name, email, contact, designation) ==
  [name |-> Trim(name), email |-> NormalizeEmail(email), contact |-> Trim(contact),
   designation |-> IF designation = Missing THEN <<"N", "/", "A">>
                   ELSE Trim(designation),
   createdAt |-> now]

\* the validators of DemoRequestSchema
DemoValidates(doc) ==
  /\ doc.name # Missing
  /\ Len(doc.name) >= 2
  /\ Len(doc.name) <= 100
  /\ doc.email # Missing
  /\ EmailMatch(doc.email)
  /\ doc.contact # Missing
  /\ Len(doc.contact) = 10
  /\ \A i \in 1..Len(doc.contact) : IsDigit(doc.contact[i])
  /\ Len(doc.designation) <= 100

\* the notification of a demo request to process.env.ADMIN_EMAIL
DemoMail(n, ok) ==
  [kind |-> "demo", about |-> n, to |-> <<"admin">>, token |-> BogusToken, ok |-> ok]

\* router.post("/") of the demo routes, lines 36-86: the required fields,
\* DemoRequest.create, the awaited mail to the admin, the response; any throw
\* (validation, the store, the transport) ends in the catch's 500
postDemo(r, name, email, contact, designation) ==
  /\ Free(r)
  /\ Len(demoRequests) < MaxDemos
  /\ \E created \in BOOLEAN, mailOk \in BOOLEAN :
       LET rq == [IdleReq EXCEPT !.op = "postDemo", !.name = name, !.email = email]
           doc == NewDemoRequest(name, email, contact, designation)
           failed == "Server error while submitting the demo request. Please try again."
       IN IF Trim(name) = Missing \/ Trim(email) = Missing \/ Trim(contact) = Missing
          THEN /\ Finish(r, Reply(rq, 400, "Name, email, and contact fields are required."))
               /\ UNCHANGED <<demoRequests, mails>>
          ELSE IF ~DemoValidates(doc) \/ ~created
          THEN /\ Finish(r, Reply(rq, 500, failed))
               /\ UNCHANGED <<demoRequests, mails>>
          ELSE /\ demoRequests' = Append(demoRequests, doc)
               /\ IF ~env.ADMIN_EMAIL
                  THEN /\ mails' = mails
                       /\ Finish(r, Reply(rq, 201, "Demo request submitted successfully."))
                  ELSE /\ mails' = mails \cup {DemoMail(Len(demoRequests) + 1, mailOk)}
                       /\ IF mailOk
                          THEN Finish(r, Reply(rq, 201, "Demo request submitted successfully."))
                          ELSE Finish(r, Reply(rq, 500, failed))
  /\ UNCHANGED <<users, plaintext, now, ticks, nextToken, uniqueIndex, process, client,
                 consumed, issued, notice>>

\* what sendEmail may be called with
NoticeTo == {Missing, <<"a", "@", "x", ".", "c">>}
NoticeSubjects == {Missing, <<"H", "i">>}
NoticeTexts == {Missing, <<"t">>}

\* the message sendEmail hands to transporter.sendMail, and whether the
\* transport took it
NoticeMail(to, subject, text, ok) ==
  [to |-> to, subject |-> subject,
   text |-> IF text = Missing THEN <<"No text content provided.">> ELSE text,
   ok |-> ok]

\* a faulty variant: the catch throws the error on
sendEmail_Rethrows(to, subject, text) ==
  /\ Turn
  /\ \E ok \in BOOLEAN :
       notice' =
         IF to = Missing \/ subject = Missing
         THEN [to |-> to, subject |-> subject, settled |-> "rejected",
               logged |-> TRUE, transport |-> {}]
         ELSE [to |-> to, subject |-> subject,
               settled |-> IF ok THEN "resolved" ELSE "rejected",
               logged |-> ~ok, transport |-> {NoticeMail(to, subject, text, ok)}]
  /\ UNCHANGED <<users, plaintext, now, ticks, nextToken, uniqueIndex, process, client,
                 req, resp, mails, consumed, issued, demoRequests>>

\* sendEmail, lines 34-52: the check of to and subject throws inside the try;
\* the catch logs whatever was thrown and the function returns
sendEmail(to, subject, text) ==
  /\ Turn
  /\ \E ok \in BOOLEAN :
       notice' =
         IF to = Missing \/ subject = Missing
         THEN [to |-> to, subject |-> subject, settled |-> "resolved",
               logged |-> TRUE, transport |-> {}]
         ELSE [to |-> to, subject |-> subject, settled |-> "resolved",
               logged |-> ~ok, transport |-> {NoticeMail(to, subject, text, ok)}]
  /\ UNCHANGED <<users, plaintext, now, ticks, nextToken, uniqueIndex, process, client,
                 req, resp, mails, consumed, issued, demoRequests>>

\* the server is up with or without ADMIN_EMAIL; both collections are empty
InitIntake ==
  /\ users = << >>
  /\ plaintext = << >>
  /\ now = 0
  /\ ticks = 0
  /\ nextToken = 1
  /\ uniqueIndex = FALSE
  /\ req = [r \in Reqs |-> IdleReq]
  /\ resp = NoResp
  /\ mails = {}
  /\ consumed = {}
  /\ issued = {}
  /\ \E adminEmail \in BOOLEAN : env = [Configured EXCEPT !.ADMIN_EMAIL = adminEmail]
  /\ proc = Running
  /\ jar = {}
  /\ revoked = {}
  /\ demoRequests = << >>
  /\ notice = NoNotice

\* demo requests, one at a time, and calls of the mail utility
NextIntake ==
  \/ \E b \in DemoInputs : postDemo(1, b[1], b[2], b[3], b[4])
  \/ \E to \in NoticeTo, subject \in NoticeSubjects, text \in NoticeTexts :
       sendEmail(to, subject, text)
  \/ ResponseSent

SpecIntake == InitIntake /\ [][NextIntake]_vars

\* ------------------------------------------------------------- properties
VerifyOps == {"verifyEmail", "RouterVerify"}
LoginOps == {"loginUser", "RouterLogin"}

\* InvalidOrExpiredToken, as each verify handler reports it
InvalidOrExpiredToken(rs) ==
  \/ rs.to.op = "verifyEmail" /\ rs.status = 400
       /\ rs.body = "Invalid or expired verification link."
  \/ rs.to.op = "RouterVerify" /\ rs.status = 302 /\ rs.body = "/verify-failed"

VerifySucceeded(rs) ==
  rs.to.op \in VerifyOps /\ rs.status = 302 /\ rs.body = "/verify-success"

InvalidCredentials(rs) == rs.status = 400 /\ rs.body = "Invalid credentials."

RegisterOps == {"registerUser", "RouterRegister"}

\* this step is a step of a handler in ops: it ends in an await or in a response
StepOf(r, ops) == req'[r].op \in ops \/ resp'.to.op \in ops

\* the user a login or resend for this email is about (0: none)
UserOf(email) ==
  LET hits == {i \in UserIds : users[i].email = Trim(ToLowerCase(email))}
  IN IF hits = {} THEN 0 ELSE CHOOSE i \in hits : \A k \in hits : i <= k

\* a token newer than t was generated for the same user
Older(t) ==
  \E i \in issued, j \in issued : i.token = t /\ j.uid = i.uid /\ j.token > t

\* t is past its 24 hours at time now
Expired(t) == \E i \in issued : i.token = t /\ now >= i.at + TokenTTL

\* C1: of the verify requests that carry the same raw token, exactly one
\* reports success: no verify handler reports success with a raw token that
\* another request has already succeeded with.
C1_OneVerifySucceeds ==
  [][\A r \in Reqs :
       (verifyEmail_save(r) \/ RouterVerify_save(r)) => req[r].token \notin consumed]_vars

\* C2: concurrent registrations of one normalized email leave exactly one user
\* with that email in the store.
C2_OneUserPerEmail ==
  \A i \in UserIds, j \in UserIds : users[i].email = users[j].email => i = j

\* C3: a verification token is single-use: the verify that finds its user ends
\* with that user verified and both token fields cleared, and every later
\* verify with the same raw token fails with InvalidOrExpiredToken.
C3_SingleUse ==
  [][\A r \in Reqs :
       /\ (verifyEmail_save(r) \/ RouterVerify_save(r)) =>
            /\ VerifySucceeded(resp')
            /\ users'[req[r].uid].emailVerified
            /\ users'[req[r].uid].verifyToken = {}
            /\ users'[req[r].uid].verifyTokenExpires = {}
       /\ \A t \in consumed :
            (verifyEmail_find(r, t) \/ RouterVerify_find(r, t)) =>
               InvalidOrExpiredToken(resp')]_vars

C3_Witness ==
  /\ resp.to.op \in VerifyOps
  /\ resp.to.token \in consumed
  /\ InvalidOrExpiredToken(resp)
  /\ \E i \in UserIds : users[i].emailVerified /\ users[i].verifyToken = {}

\* C4: a login with a registered email and the password it was registered
\* with, on a verified account, answers 200 and sets the session cookie.
C4_LoginAfterVerify ==
  (/\ resp.to.op \in LoginOps
   /\ UserOf(resp.to.email) # 0
   /\ users[UserOf(resp.to.email)].emailVerified
   /\ resp.to.password = plaintext[UserOf(resp.to.email)])
  => (resp.status = 200 /\ resp.cookie # {})

\* C5: a login with a wrong password answers InvalidCredentials (400), the
\* answer given when no user has the email, whether or not the account is
\* verified.
C5_WrongPassword ==
  (/\ resp.to.op \in LoginOps
   /\ UserOf(resp.to.email) # 0
   /\ resp.to.password # Missing
   /\ resp.to.password # plaintext[UserOf(resp.to.email)])
  => InvalidCredentials(resp)

\* C6: a login with the correct password on an account whose emailVerified is
\* false answers 403 and issues no session cookie.
C6_NotVerified ==
  (/\ resp.to.op \in LoginOps
   /\ UserOf(resp.to.email) # 0
   /\ ~users[UserOf(resp.to.email)].emailVerified
   /\ resp.to.password = plaintext[UserOf(resp.to.email)])
  => (resp.status = 403 /\ resp.cookie = {})

C6_Witness ==
  /\ resp.to.op \in LoginOps
  /\ UserOf(resp.to.email) # 0
  /\ ~users[UserOf(resp.to.email)].emailVerified
  /\ resp.to.password = plaintext[UserOf(resp.to.email)]
  /\ resp.status = 403

\* C7: a stored token expires 24 hours after it was generated; a verify at or
\* after that time fails with InvalidOrExpiredToken although the digest
\* matches, and leaves the store as it was; a verify finds its user only while
\* the expiry is strictly in the future.
C7_Expiry ==
  /\ [](\A i \in issued :
          Digest(i.token) \in users[i.uid].verifyToken =>
            users[i.uid].verifyTokenExpires = {i.at + TokenTTL})
  /\ [][\A r \in Reqs, t \in TokenInputs :
          (/\ StepOf(r, VerifyOps)
           /\ verifyEmail_find(r, t) \/ RouterVerify_find(r, t)) =>
            /\ Expired(t) => (InvalidOrExpiredToken(resp') /\ users' = users)
            /\ req'[r].pc = "save" => (~Expired(t) /\ users' = users)]_vars

C7_Witness ==
  /\ InvalidOrExpiredToken(resp)
  /\ Expired(resp.to.token)
  /\ \E i \in UserIds :
       /\ Digest(resp.to.token) \in users[i].verifyToken
       /\ users[i].verifyTokenExpires = {now}
       /\ ~users[i].emailVerified

\* C8: once a newer token was generated for a user, a verify with an older raw
\* token of that user fails with InvalidOrExpiredToken; the store holds the
\* digest of at most one token per user, the newest one.
C8_ResendInvalidates ==
  /\ [](\A i \in issued :
          Digest(i.token) \in users[i.uid].verifyToken =>
            /\ users[i.uid].verifyToken = {Digest(i.token)}
            /\ \A j \in issued : j.uid = i.uid => j.token <= i.token)
  /\ [][\A r \in Reqs, t \in TokenInputs :
          (/\ StepOf(r, VerifyOps)
           /\ Older(t)
           /\ verifyEmail_find(r, t) \/ RouterVerify_find(r, t)) =>
            InvalidOrExpiredToken(resp')]_vars

C8_Witness ==
  /\ InvalidOrExpiredToken(resp)
  /\ Older(resp.to.token)
  /\ ~Expired(resp.to.token)
  /\ resp.to.token \notin consumed
  /\ \E i \in issued : i.token = resp.to.token /\ ~users[i.uid].emailVerified

\* C9: resendVerification for a verified account answers 200 at once: no mail
\* is sent, no token is generated, the store is as it was.
C9_ResendWhenVerified ==
  [][\A r \in Reqs, email \in LookupEmails :
       (/\ StepOf(r, {"resendVerification"})
        /\ UserOf(email) # 0
        /\ users[UserOf(email)].emailVerified
        /\ resendVerification_find(r, email)) =>
          /\ resp'.status = 200
          /\ req'[r] = IdleReq
          /\ mails' = mails
          /\ users' = users
          /\ nextToken' = nextToken]_vars

C9_Witness ==
  /\ resp.to.op = "resendVerification"
  /\ resp.status = 200
  /\ UserOf(resp.to.email) # 0
  /\ users[UserOf(resp.to.email)].emailVerified
  /\ users[UserOf(resp.to.email)].verifyToken = {}

\* C10: a complete registration whose email, lower-cased and trimmed, is the
\* email of a stored user answers 400 "User already exists." in both register
\* handlers and creates nothing; the store never holds two users of one email.
C10_Duplicate ==
  /\ [](\A i \in UserIds, j \in UserIds : users[i].email = users[j].email => i = j)
  /\ [][\A r \in Reqs :
          StepOf(r, RegisterOps) =>
            \A b \in RegisterInputs :
              (/\ \A k \in 1..3 : b[k] # Missing
               /\ UserOf(b[2]) # 0
               /\ registerUser_find(r, b[1], b[2], b[3])
                  \/ RouterRegister_find(r, b[1], b[2], b[3])) =>
                 /\ resp'.status = 400
                 /\ resp'.body = "User already exists."
                 /\ req'[r] = IdleReq
                 /\ users' = users]_vars

C10_Witness ==
  /\ resp.to.op = "RouterRegister"
  /\ resp.to.email = EmailAnnRaw
  /\ resp.status = 400
  /\ resp.body = "User already exists."
  /\ \E i \in UserIds : users[i].email = EmailAnn

\* C11: a valid registration whose normalized email no earlier registration
\* used answers 201 and leaves exactly one user with that email, who is
\* unverified and has both verifyToken and verifyTokenExpires set.
C11_Registers ==
  (resp.to.op \in RegisterOps /\ resp.to.pc # "idle") =>
     /\ resp.status = 201
     /\ \E i \in UserIds :
          /\ users[i].email = NormalizeEmail(resp.to.email)
          /\ \A j \in UserIds : users[j].email = users[i].email => j = i
          /\ ~users[i].emailVerified
          /\ users[i].verifyToken # {}
          /\ users[i].verifyTokenExpires # {}

\* C12: when a mail of a register or resendVerification request fails after
\* the record was saved, the request still answers with its success status.
C12_MailFailureSwallowed ==
  [][\A r \in Reqs :
       (/\ StepOf(r, RegisterOps \cup {"resendVerification"})
        /\ registerUser_save(r) \/ RouterRegister_save(r) \/ resendVerification_save(r)
        /\ users' # users
        /\ \E m \in mails' \ mails : ~m.ok) =>
          resp'.status \in {200, 201}]_vars

SessionOps == {"getMe", "RouterMe", "authMiddleware"}

\* the credential is a signed token whose exp the clock has reached
ExpiredCred(cred, t) == cred.kind = "signed" /\ (t \div 1000) >= cred.exp

\* Unauthorized, with the message the handler gives when no credential came
Unauthorized(rs) ==
  /\ rs.status = 401
  /\ rs.body = IF rs.to.op = "authMiddleware"
               THEN "Access denied. No token provided."
               ELSE "Not authorized."

\* C13: GET /me and the auth middleware answer 401 when the credential is
\* absent, malformed or expired, with one message for all three causes.
C13_Unauthorized ==
  (/\ resp.to.op \in SessionOps
   /\ resp.to.cred.kind # "signed" \/ ExpiredCred(resp.to.cred, now)) =>
     Unauthorized(resp)

\* C14: emailVerified never goes from true back to false, whatever register,
\* verify, resendVerification, login and logout steps follow.
C14_VerifiedStays ==
  [][\A i \in UserIds : users[i].emailVerified => users'[i].emailVerified]_vars

\* a resend's save has landed on a user who was verified after the resend
\* had loaded the document, and the user is still verified
C14_Witness ==
  \E i \in issued, j \in issued :
    /\ i.uid = j.uid
    /\ i.token \in consumed
    /\ j.token > i.token
    /\ users[i.uid].emailVerified
    /\ Digest(j.token) \in users[i.uid].verifyToken

\* C15: a verified user has neither verifyToken nor verifyTokenExpires, in
\* every state that interleaved verify and resendVerification steps reach.
C15_VerifiedHasNoToken ==
  \A i \in UserIds :
    users[i].emailVerified =>
      (users[i].verifyToken = {} /\ users[i].verifyTokenExpires = {})

\* C16: in every stored user verifyToken and verifyTokenExpires are both
\* present or both absent, requests that fail part-way included.
C16_TokenFieldsTogether ==
  \A i \in UserIds : (users[i].verifyToken = {}) <=> (users[i].verifyTokenExpires = {})

\* a request failed after its save: the user holds both fields, while a
\* verified user holds neither
C16_Witness ==
  /\ resp.status = 500
  /\ resp.to.op \in {"RouterRegister", "resendVerification"}
  /\ \E i \in UserIds :
       /\ users[i].email = NormalizeEmail(resp.to.email)
       /\ users[i].verifyToken # {}
       /\ users[i].verifyTokenExpires # {}
  /\ \E i \in UserIds :
       /\ users[i].emailVerified
       /\ users[i].verifyToken = {}
       /\ users[i].verifyTokenExpires = {}

\* C17: the user that getMe and router.get("/me") return never carries
\* password, verifyToken or verifyTokenExpires, whether the stored user holds
\* an active token or none.
C17_MeHidesSecrets ==
  resp.to.op \in {"getMe", "RouterMe"} =>
    resp.user \cap {"password", "verifyToken", "verifyTokenExpires"} = {}

\* router.get("/me") returned a user who holds an active token
C17_Witness ==
  /\ resp.to.op = "RouterMe"
  /\ resp.status = 200
  /\ resp.user # {}
  /\ users[resp.to.cred.id].verifyToken # {}
  /\ \E e \in users[resp.to.cred.id].verifyTokenExpires : e > now

LogoutOps == {"logoutUser", "RouterLogout"}

\* the handler let the request through as the credential's user
Accepted(rs) ==
  \/ rs.to.op \in {"getMe", "RouterMe"} /\ rs.status = 200 /\ rs.user # {}
  \/ rs.to.op = "authMiddleware" /\ rs.body = "next()"

\* C18: logout answers 200 and only clears the client's cookie; a credential
\* that a logout cleared is still accepted by getMe, router.get("/me") and
\* authMiddleware when it is presented again, as long as its exp (one day
\* after it was signed) is not reached, and is rejected from then on.
C18_LogoutKeepsCredential ==
  /\ resp.to.op \in LogoutOps =>
       (resp.status = 200 /\ resp.cookie = ClearCookie /\ jar = {})
  /\ (resp.to.op \in SessionOps /\ resp.to.cred \in revoked) =>
       (Accepted(resp) <=> ~ExpiredCred(resp.to.cred, now))

\* a credential cleared by a logout is accepted in the last second before
\* its expiry
C18_Witness ==
  /\ resp.to.op \in SessionOps
  /\ resp.to.cred \in revoked
  /\ jar = {}
  /\ Accepted(resp)
  /\ now \div 1000 = resp.to.cred.exp - 1

\* the messages that register and resendVerification answer with
Acknowledgements ==
  {"Name, email, and password are required.", "All fields are required.",
   "User already exists.", "Email already registered.",
   "Server error during registration.",
   "User registered. Please check your email to verify your account.",
   "User registered successfully. Please check your email to verify your account.",
   "Email is required.", "User not found.", "Email already verified.",
   "Verification email resent successfully.", "Server error during resend."}

\* C19: the store holds of every token only its digest, never the raw token;
\* register and resendVerification answer with a message only; every raw
\* token generated was handed to the verification mail.
C19_RawTokenOnlyMailed ==
  /\ \A u \in UserIds :
       /\ users[u].verifyToken \subseteq {Digest(i.token) : i \in issued}
       /\ users[u].verifyToken \cap {Hex(i.token) : i \in issued} = {}
  /\ resp.to.op \in RegisterOps \cup {"resendVerification"} =>
       (resp.body \in Acknowledgements /\ resp.cookie = {} /\ resp.user = {})
  /\ \A i \in issued :
       \E m \in mails : m.kind = "verify" /\ m.token = i.token /\ m.about = i.uid

\* a resend succeeded: the user holds the digest of the token just mailed
C19_Witness ==
  /\ resp.to.op = "resendVerification"
  /\ resp.status = 200
  /\ resp.body = "Verification email resent successfully."
  /\ \E i \in issued, m \in mails :
       /\ i.token = nextToken - 1
       /\ m.kind = "verify" /\ m.ok /\ m.token = i.token
       /\ users[i.uid].verifyToken = {Digest(i.token)}

\* C20: when the signing secret or the connection string is missing at
\* start-up, the process exits and never accepts a request.
C20_FatalAtStartup ==
  (~env.JWT_SECRET \/ ~env.URI) => ~proc.accepting
\* ---------------------------------------------------------------- C21
\* the response sets the session cookie: a Set-Cookie that carries a signed
\* token
SetsSession(rs) == \E c \in rs.cookie : c.value.kind = "signed"

\* C21: a response sets the session cookie only when it is the 200 of a
\* login for an email that has a user, whose emailVerified is true and whose
\* stored hash bcrypt.compare accepts the presented password against; the
\* cookie then carries a token signed for that user.  No response of
\* register, verify, resendVerification, logout or /me, and no other
\* response of a login, sets it.
C21_CookieOnlyByLogin ==
  SetsSession(resp) =>
    /\ resp.to.op \in LoginOps
    /\ resp.status = 200
    /\ LET uid == UserOf(resp.to.email)
       IN /\ uid # 0
          /\ users[uid].emailVerified
          /\ Compare(resp.to.password, users[uid].password)
          /\ resp.cookie = SessionCookie(uid, now)

\* a login has just set the session cookie
C21_Witness ==
  /\ SetsSession(resp)
  /\ resp.to.op = "RouterLogin"
  /\ jar # {}

\* ---------------------------------------------------------------- C22
\* the handler of slot r answered with this status and did nothing else: the
\* slot is free again, no document and no token changed, no mail was handed
\* to the transport
Rejected(r, status) ==
  /\ resp'.status = status
  /\ req'[r] = IdleReq
  /\ users' = users
  /\ plaintext' = plaintext
  /\ mails' = mails
  /\ issued' = issued
  /\ nextToken' = nextToken

\* C22: a resendVerification for an email that, lower-cased and trimmed, no
\* stored user has answers 404 "User not found."; a registration whose name,
\* email or password is missing answers 400, in both register handlers.  In
\* both cases the users collection is as it was and no mail was sent.
C22_RejectsWithoutEffect ==
  [][\A r \in Reqs :
       /\ StepOf(r, {"resendVerification"}) =>
            \A email \in LookupEmails :
              (/\ email # Missing
               /\ UserOf(email) = 0
               /\ resendVerification_find(r, email)) =>
                 /\ Rejected(r, 404)
                 /\ resp'.body = "User not found."
       /\ StepOf(r, RegisterOps) =>
            \A b \in RegisterInputs :
              (/\ \E k \in 1..3 : b[k] = Missing
               /\ (\/ registerUser_find(r, b[1], b[2], b[3])
                   \/ RouterRegister_find(r, b[1], b[2], b[3]))) =>
                 Rejected(r, 400)]_vars

\* a resend for an email nobody registered was answered 404 while another
\* user is stored
C22_Witness ==
  /\ resp.to.op = "resendVerification"
  /\ resp.to.email = EmailBob
  /\ resp.status = 404
  /\ users # << >>
  /\ UserOf(EmailBob) = 0

\* ---------------------------------------------------------------- C23
\* C23: a POST /demo that stored its DemoRequest answers 201, whether the
\* mail to the admin was taken by the transport or not; a POST /demo whose
\* name, email or contact is missing or blank answers 400, stores nothing and
\* sends no mail.
C23_DemoAnswers ==
  [][\A r \in Reqs :
       StepOf(r, {"postDemo"}) =>
         /\ demoRequests' # demoRequests => resp'.status = 201
         /\ \A b \in DemoInputs :
              (/\ \E k \in 1..3 : Trim(b[k]) = Missing
               /\ postDemo(r, b[1], b[2], b[3], b[4])) =>
                 /\ resp'.status = 400
                 /\ demoRequests' = demoRequests
                 /\ mails' = mails]_vars

C24_FailedRegisterLeavesNothing ==
  (resp.to.op \in RegisterOps /\ resp.status >= 500) => UserOf(resp.to.email) = 0

\* ---------------------------------------------------------------- C25
\* C25: connectWithRetry calls mongoose.connect at most 6 times, the first
\* call and 5 retries, each retry when its timer fires; once a call has
\* connected no further call is made; when the sixth call fails the process
\* exits, and it exits from connectWithRetry in no other case; and a
\* connectWithRetry that has started always ends connected or exited.
C25_RetryTerminates ==
  /\ [](proc.attempts <= 6)
  /\ [][proc.db = "connected" => proc'.attempts = proc.attempts]_vars
  /\ [][proc'.attempts # proc.attempts =>
          /\ proc'.attempts = proc.attempts + 1
          /\ proc.pc \in {"connectDB", "setTimeout"}]_vars
  /\ [][(connectWithRetry_failed /\ proc.attempts = 6) => proc'.pc = "exited"]_vars
  /\ []((proc.pc = "exited" /\ proc.attempts > 0) => proc.attempts = 6)
  /\ (proc.pc \in {"connectWithRetry", "setTimeout"})
       ~> (proc.pc \in {"connected", "exited"})

\* the sixth call has failed and the process has exited
C25_Witness ==
  /\ proc.pc = "exited"
  /\ proc.attempts = 6
  /\ proc.retries = 0

\* ---------------------------------------------------------------- C26
\* C26: the promise connectDB returned has resolved only if the connection
\* is established or the process has exited; it has not resolved while a
\* retry is pending or in flight.
C26_AwaitCoversRetries ==
  proc.resolved => (proc.db = "connected" \/ proc.pc = "exited")

\* ---------------------------------------------------------------- C27
\* C27: authMiddleware ends in exactly one of two ways.  Either it called
\* next() and sent no response, and then the request carried a signed token
\* that is not expired, the secret is set, and req.user is the token's
\* payload; or it sent one error response, 401 or 500, and did not call
\* next().
C27_NextOrError ==
  resp.to.op = "authMiddleware" =>
    LET called == resp.body = "next()"
        sent == resp.status # 0
    IN /\ called # sent
       /\ called =>
            /\ resp.to.cred.kind = "signed"
            /\ ~ExpiredCred(resp.to.cred, now)
            /\ env.JWT_SECRET
            /\ resp.to.uid = resp.to.cred.id
            /\ resp.to.uid \in UserIds
       /\ sent => resp.status \in {401, 500}

\* authMiddleware let a request through, with req.user set, after the clock
\* had advanced
C27_Witness ==
  /\ resp.to.op = "authMiddleware"
  /\ resp.body = "next()"
  /\ resp.status = 0
  /\ resp.to.uid # 0
  /\ now > 0

====
